---- MODULE Spec2Model ----
(***************************************************************************)
(* Model of the pseudorandom number service: the /generate and /validate   *)
(* handlers of main.py with the congruential and middle-square generators  *)
(* and the congruential validator they call, and the acceptance-rejection  *)
(* sampler.                                                                *)
(*                                                                         *)
(* Python integers are unbounded, so the model uses TLA+ integers.  Floats *)
(* appear only as quotients that are compared or rounded; they are         *)
(* modelled as exact rationals <<numerator, denominator>>.                 *)
(***************************************************************************)
EXTENDS Integers, Sequences, FiniteSets, TLC

VARIABLES
    \* ---- the request (main.py GenerationRequest / ValidationRequest)
    endpoint,       \* "generate" | "validate" | "none"
    method,         \* request.method
    x0, a, b, m,    \* request.parameters (congruential)
    digits,         \* request.parameters["digits"] (middle squares)
    \* ---- generator object and the locals of generate()
    sequence,       \* self.sequence
    seen_values,    \* self.seen_values
    current,        \* local current
    iterations,     \* local iterations (middle squares)
    stopped_reason, \* local stopped_reason (middle squares), <<>> while unbound
    pc,             \* position of the handler
    ret,            \* tuple returned by generator.generate(), <<>> while none
    error,          \* exception raised inside the handler's try, "" while none
    response,       \* what the handler answers, <<>> while none
    \* ---- the sampler threads and the process-wide random module
    rng,            \* hidden state of the global random generator
    density,        \* per invocation: which subclass was constructed
    count,          \* per invocation: argument of generate(count)
    apc,            \* per invocation: position
    trial,          \* per invocation: loop index i
    r1_values, r2_values, accepted_values,
    chart_x, chart_y, chart_accepted, chart_x_d, chart_y_d,
    accepted_count, result,
    start_rng,      \* history: the generator state when generate() began
    \* ---- a goodness-of-fit test (validators/statistical_tests.py)
    test_type,      \* "chi_square" | "kolmogorov_smirnov" | "none"
    numbers,        \* the caller's list, as it is now
    intervals,      \* run_test argument (Chi-square)
    alpha,          \* alpha / significance_level, in hundredths
    tpc,            \* position of run_test
    test_result,    \* the dict run_test returns, <<>> while none
    test_error,     \* message of the ValueError it raises, <<>> while none
    \* ---- a caller that keeps the tuple of one generate() and calls again
    first_result    \* <<>> until generate() has returned once

reqVars == <<endpoint, method, x0, a, b, m, digits>>
genVars == <<sequence, seen_values, current, iterations, stopped_reason,
             pc, ret, error, response>>
arVars  == <<rng, density, count, apc, trial, r1_values, r2_values,
             accepted_values, chart_x, chart_y, chart_accepted, chart_x_d,
             chart_y_d, accepted_count, result, start_rng>>
testVars == <<test_type, numbers, intervals, alpha, tpc, test_result,
              test_error>>
vars    == <<reqVars, genVars, arVars, testVars, first_result>>

----------------------------------------------------------------------------
(* Bounds of the model *)

MaxM == 16          \* moduli range over -NegSpan..MaxM
MaxA == 5           \* multipliers range over -NegSpan..MaxA
MaxB == 3           \* increments range over -NegSpan..MaxB
NegSpan == 1        \* how far below zero the integer parameters range
MaxSeed == 1234     \* middle-square seeds range over -NegSpan..MaxSeed
MaxDigits == 4      \* digit counts range over -NegSpan..MaxDigits
GridBits == 2       \* uniform draws are the multiples of 2^-GridBits in [0, 1)
MaxCount == 2       \* sampler trial counts range over 0..MaxCount
MaxSampleSize == 3  \* tested samples hold 0..MaxSampleSize values
MaxSampleValue == 5 \* sample values are v/4 for v in -NegSpan..MaxSampleValue
MaxIntervals == 5   \* Chi-square interval counts range over 0..MaxIntervals

----------------------------------------------------------------------------
(* Python arithmetic *)

\* x % y of Python: the result has the sign of the divisor (y # 0).
PyMod(x, y) == IF y > 0 THEN x % y ELSE 0 - ((0 - x) % (0 - y))

\* x // y of Python: floor division (y # 0).
PyFloorDiv(x, y) ==
    LET r == PyMod(x, y)
        n == x - r
    IN  IF y > 0 THEN n \div y ELSE (0 - n) \div (0 - y)

RECURSIVE Pow10(_)
Pow10(n) == IF n <= 0 THEN 1 ELSE 10 * Pow10(n - 1)

\* sum(s); integer addition is associative, so the halves are summed apart.
RECURSIVE SeqSum(_)
SeqSum(s) ==
    IF Len(s) = 0 THEN 0
    ELSE IF Len(s) = 1 THEN s[1]
    ELSE LET half == Len(s) \div 2
         IN  SeqSum(SubSeq(s, 1, half)) + SeqSum(SubSeq(s, half + 1, Len(s)))

SeqMin(s) == CHOOSE v \in {s[i] : i \in 1..Len(s)} :
                \A i \in 1..Len(s) : v <= s[i]

SeqMax(s) == CHOOSE v \in {s[i] : i \in 1..Len(s)} :
                \A i \in 1..Len(s) : v >= s[i]

\* s.ljust(width, "0"): zeros are appended on the right up to width.
Ljust(s, width) ==
    IF Len(s) >= width THEN s
    ELSE s \o [i \in 1..(width - Len(s)) |-> 0]

\* s[start:stop] of Python for a sequence s (indices from 0, negative
\* indices count from the end, out-of-range indices are clipped).
PySlice(s, start, stop) ==
    LET clip(i) == IF i < 0
                   THEN (IF i + Len(s) < 0 THEN 0 ELSE i + Len(s))
                   ELSE (IF i > Len(s) THEN Len(s) ELSE i)
        lo == clip(start)
        hi == clip(stop)
    IN  IF hi <= lo THEN <<>> ELSE SubSeq(s, lo + 1, hi)

\* int(s) for a non-empty digit string.
RECURSIVE DigitsToInt(_)
DigitsToInt(s) ==
    IF s = <<>> THEN 0
    ELSE 10 * DigitsToInt(SubSeq(s, 1, Len(s) - 1)) + s[Len(s)]

\* Floor of log2(n) for n >= 1.
RECURSIVE Log2(_)
Log2(n) == IF n < 2 THEN 0 ELSE 1 + Log2(n \div 2)

\* The number of zero bits that follow the binary point of r / y (0 < r < y).
RECURSIVE LeadingZeroBits(_, _)
LeadingZeroBits(r, y) == IF 2 * r >= y THEN 0 ELSE 1 + LeadingZeroBits(2 * r, y)

\* (r * 2^k) mod y for r < y < 2^23, eight bits at a time.
RECURSIVE ShiftMod(_, _, _)
ShiftMod(r, k, y) ==
    IF k = 0 THEN r
    ELSE IF k >= 8 THEN ShiftMod((256 * r) % y, k - 8, y)
    ELSE ShiftMod((2 * r) % y, k - 1, y)

\* The float x / y (x >= 0, y > 0) against the exact quotient: 1 when the
\* nearest double lies above it, -1 when below, 0 when the quotient is a
\* double.  A double keeps 53 significant bits.
FloatError(x, y) ==
    LET whole == x \div y
        r     == x % y
        kept  == IF whole > 0 THEN 52 - Log2(whole)
                 ELSE 53 + LeadingZeroBits(r, y)
        rest  == ShiftMod(r, kept, y)
    IN  IF r = 0 \/ rest = 0 THEN 0
        ELSE IF 2 * rest > y THEN 1 ELSE -1

\* round(x / y, 3) in thousandths (y # 0): the float quotient rounded to
\* the nearest thousandth; an exact tie goes to the even neighbour, and a
\* quotient that is a tie only before the division rounds goes where the
\* float lies.
Round3(x, y) ==
    LET ax   == IF x >= 0 THEN x ELSE 0 - x
        ay   == IF y > 0 THEN y ELSE 0 - y
        sign == IF (x >= 0) = (y > 0) THEN 1 ELSE -1
        n    == 1000 * ax
        q    == n \div ay
        r2   == 2 * (n % ay)
        up   == IF r2 < ay THEN FALSE
                ELSE IF r2 > ay THEN TRUE
                ELSE IF FloatError(ax, ay) = 0 THEN q % 2 = 1
                ELSE FloatError(ax, ay) = 1
    IN  sign * (IF up THEN q + 1 ELSE q)

Normalize(s, base) == [i \in 1..Len(s) |-> Round3(s[i], base)]

----------------------------------------------------------------------------
(* Python lists are objects: the tuple generate() returns holds the very   *)
(* list self.sequence.  first_result is the caller's view of one returned  *)
(* tuple: .returned as it was returned, .held as it reads now, .shares     *)
(* whether its list is still the object bound to self.sequence.            *)

NoResult == [returned |-> <<>>, held |-> <<>>, shares |-> FALSE]

\* The attribute keeps the list object it had (as self.sequence.clear()).
Rebound_SameList(kept) == kept

\* self.sequence = []: the attribute is bound to a new list object.
Rebound(kept) == [kept EXCEPT !.shares = FALSE]

\* self.sequence.append(value), seen through a tuple holding that list.
Appended(kept, value) ==
    IF kept.shares
    THEN [kept EXCEPT !.held = [@ EXCEPT ![1] = Append(@, value)]]
    ELSE kept

----------------------------------------------------------------------------
(* generators/congruential.py *)

Congruential == {"mixed_congruential", "multiplicative_congruential"}

\* Variant: the increment is left out of the mixed recurrence.
next_value_NoIncrement(x) == PyMod(a * x, m)

\* Variant: the increment is added after the reduction modulo m.
next_value_IncrementAfterMod(x) ==
    IF method = "mixed_congruential"
    THEN PyMod(a * x, m) + b
    ELSE PyMod(a * x, m)

\* The recurrence with the modulus left out.
next_value_Unreduced(x) ==
    IF method = "mixed_congruential" THEN a * x + b ELSE a * x

\* MixedCongruentialGenerator.next_value / MultiplicativeCongruentialGenerator.next_value
next_value(x) ==
    IF method = "mixed_congruential"
    THEN PyMod(a * x + b, m)
    ELSE PyMod(a * x, m)

CongruentialReason(value) ==
    <<"Se repitio el valor", value, "(inicio de ciclo)">>

CongruentialStats(seq, value) ==
    [count          |-> Len(seq),
     min            |-> SeqMin(seq),
     max            |-> SeqMax(seq),
     mean           |-> <<SeqSum(seq), Len(seq)>>,
     period         |-> Len(seq),
     stopped_reason |-> CongruentialReason(value)]

\* generator = ...CongruentialGenerator(...); generate() up to the loop.
StartCongruential ==
    /\ pc = "request"
    /\ endpoint = "generate"
    /\ method \in Congruential
    /\ sequence' = <<>>
    /\ seen_values' = {}
    /\ current' = x0
    /\ pc' = "cong_loop"
    /\ first_result' = Rebound(first_result)
    /\ UNCHANGED <<reqVars, iterations, stopped_reason, ret, error, response,
                   arVars, testVars>>

\* One pass of  while current not in self.seen_values.  With m = 0 the
\* modulo raises ZeroDivisionError after the value has been appended.
CongruentialIterate ==
    /\ pc = "cong_loop"
    /\ current \notin seen_values
    /\ seen_values' = seen_values \cup {current}
    /\ sequence' = Append(sequence, current)
    /\ IF m = 0
       THEN /\ error' = "ZeroDivisionError"
            /\ pc' = "raised"
            /\ UNCHANGED current
       ELSE /\ current' = next_value(current)
            /\ UNCHANGED <<error, pc>>
    /\ first_result' = Appended(first_result, current)
    /\ UNCHANGED <<reqVars, iterations, stopped_reason, ret, response, arVars,
                   testVars>>

\* The loop ends on a value already seen: normalized, stats, return.
CongruentialFinish ==
    /\ pc = "cong_loop"
    /\ current \in seen_values
    /\ ret' = <<sequence, Normalize(sequence, m),
                CongruentialStats(sequence, current)>>
    /\ pc' = "returned"
    /\ UNCHANGED <<reqVars, sequence, seen_values, current, iterations,
                   stopped_reason, error, response, arVars, testVars,
                   first_result>>

----------------------------------------------------------------------------
(* generators/middle_squares.py *)

max_iterations == 10000

\* str(x ** 2): Python integers do not overflow, so the square is worked
\* out on limbs of four decimal digits (|x| < 10^8) and written out.
Pad4(n) == <<n \div 1000, (n \div 100) % 10, (n \div 10) % 10, n % 10>>

RECURSIVE StripLeadingZeros(_)
StripLeadingZeros(s) ==
    IF Len(s) > 1 /\ Head(s) = 0 THEN StripLeadingZeros(Tail(s)) ELSE s

SquaredStr(x) ==
    LET ax == IF x >= 0 THEN x ELSE 0 - x
        p  == ax \div 10000
        q  == ax % 10000
        t0 == q * q
        t1 == 2 * p * q + t0 \div 10000
        t2 == p * p + t1 \div 10000
    IN  StripLeadingZeros(Pad4(t2 \div 10000) \o Pad4(t2 % 10000)
                            \o Pad4(t1 % 10000) \o Pad4(t0 % 10000))

\* The middle digits of the square of x; <<>> stands for int("") raising
\* ValueError.
MiddleSlice(x, d) ==
    LET squared_str == Ljust(SquaredStr(x), 2 * d)
        start       == PyFloorDiv(Len(squared_str) - d, 2)
    IN  PySlice(squared_str, start, start + d)

\* extract_middle_digits(x ** 2)
extract_middle_digits(x, d) == DigitsToInt(MiddleSlice(x, d))

ZeroReason ==
    <<"Se genero un 0, lo cual hace que la secuencia se congele en ceros">>

LimitReason == <<"Se alcanzo el limite maximo de iteraciones", max_iterations>>

RepeatReason(value) == <<"Se repitio el valor", value>>

MiddleSquaresStats(seq, reason) ==
    [count          |-> Len(seq),
     min            |-> IF seq # <<>> THEN SeqMin(seq) ELSE 0,
     max            |-> IF seq # <<>> THEN SeqMax(seq) ELSE 0,
     mean           |-> IF seq # <<>> THEN <<SeqSum(seq), Len(seq)>> ELSE <<0, 1>>,
     stopped_reason |-> reason]

\* Variant: a reason set by the break is kept.
FinalReason_KeepsBreakReason(iters, value, seen, reason) ==
    IF reason # <<>> THEN reason
    ELSE IF iters >= max_iterations THEN LimitReason
    ELSE IF value \in seen THEN RepeatReason(value)
    ELSE reason

\* The reason chosen after the loop (the if / elif over what the loop left).
FinalReason(iters, value, seen, reason) ==
    IF iters >= max_iterations THEN LimitReason
    ELSE IF value \in seen THEN RepeatReason(value)
    ELSE reason

\* generator = MiddleSquaresGenerator(...); generate() up to the loop.
StartMiddleSquares ==
    /\ pc = "request"
    /\ endpoint = "generate"
    /\ method = "middle_squares"
    /\ sequence' = <<>>
    /\ seen_values' = {}
    /\ current' = x0
    /\ iterations' = 0
    /\ stopped_reason' = <<>>
    /\ pc' = "ms_loop"
    /\ first_result' = Rebound(first_result)
    /\ UNCHANGED <<reqVars, ret, error, response, arVars, testVars>>

\* One pass of the loop body: append, square, extract, test for zero
\* (squared = current ** 2 is formed inside extract_middle_digits here).
MiddleSquaresIterate ==
    /\ pc = "ms_loop"
    /\ current \notin seen_values
    /\ iterations < max_iterations
    /\ seen_values' = seen_values \cup {current}
    /\ sequence' = Append(sequence, current)
    /\ IF MiddleSlice(current, digits) = <<>>
       THEN /\ error' = "ValueError"
            /\ pc' = "raised"
            /\ UNCHANGED <<current, iterations, stopped_reason>>
       ELSE LET next == extract_middle_digits(current, digits)
            IN  /\ current' = next
                /\ error' = error
                /\ IF next = 0
                   THEN /\ stopped_reason' = ZeroReason
                        /\ pc' = "ms_after"
                        /\ UNCHANGED iterations
                   ELSE /\ iterations' = iterations + 1
                        /\ UNCHANGED <<stopped_reason, pc>>
    /\ first_result' = Appended(first_result, current)
    /\ UNCHANGED <<reqVars, ret, response, arVars, testVars>>

\* The loop condition is false: fall out of the loop.
MiddleSquaresExit ==
    /\ pc = "ms_loop"
    /\ ~(current \notin seen_values /\ iterations < max_iterations)
    /\ pc' = "ms_after"
    /\ UNCHANGED <<reqVars, sequence, seen_values, current, iterations,
                   stopped_reason, ret, error, response, arVars, testVars,
                   first_result>>

\* After the loop: stop reason, normalized, stats, return.
MiddleSquaresFinish ==
    /\ pc = "ms_after"
    /\ stopped_reason' = FinalReason(iterations, current, seen_values,
                                     stopped_reason)
    /\ IF stopped_reason' = <<>>
       THEN /\ error' = "UnboundLocalError"
            /\ pc' = "raised"
            /\ UNCHANGED ret
       ELSE /\ ret' = <<sequence, Normalize(sequence, Pow10(digits)),
                        MiddleSquaresStats(sequence, stopped_reason')>>
            /\ pc' = "returned"
            /\ UNCHANGED error
    /\ UNCHANGED <<reqVars, sequence, seen_values, current, iterations,
                   response, arVars, testVars, first_result>>

----------------------------------------------------------------------------
(* validators/conditions.py *)

\* CongruentialValidator.gcd: Euclid's loop  while b: a, b = b, a % b.
RECURSIVE gcd(_, _)
gcd(u, v) == IF v = 0 THEN u ELSE gcd(v, PyMod(u, v))

\* The inner loop of get_prime_factors: divide n by d while d divides it.
RECURSIVE StripFactor(_, _)
StripFactor(n, d) == IF n % d = 0 THEN StripFactor(n \div d, d) ELSE n

\* The outer loop of get_prime_factors: trial division from d upwards.
RECURSIVE TrialDivision(_, _, _)
TrialDivision(n, d, factors) ==
    IF d * d <= n
    THEN TrialDivision(StripFactor(n, d), d + 1,
                       IF n % d = 0 THEN factors \cup {d} ELSE factors)
    ELSE IF n > 1 THEN factors \cup {n} ELSE factors

\* Variant: the factor left over after the trial divisions is dropped.
RECURSIVE TrialDivisionOnly(_, _, _)
TrialDivisionOnly(n, d, factors) ==
    IF d * d <= n
    THEN TrialDivisionOnly(StripFactor(n, d), d + 1,
                           IF n % d = 0 THEN factors \cup {d} ELSE factors)
    ELSE factors

get_prime_factors_NoRemainder(n) == TrialDivisionOnly(n, 2, {})

\* get_prime_factors(n): list(set(factors)), kept as the set.
get_prime_factors(n) == TrialDivision(n, 2, {})

validate_gcd_condition(vb, vm, mixed) ==
    IF ~mixed
    THEN [name        |-> "mcd(b, m) = 1",
          description |-> "No aplica para metodo multiplicativo",
          satisfied   |-> TRUE,
          details     |-> <<"Esta condicion solo se evalua en el metodo mixto">>]
    ELSE [name        |-> "mcd(b, m) = 1",
          description |-> "b y m deben ser primos entre si",
          satisfied   |-> (gcd(vb, vm) = 1),
          details     |-> <<"mcd", vb, vm, gcd(vb, vm)>>]

validate_prime_divisor_condition(va, vm) ==
    LET prime_factors  == get_prime_factors(vm)
        failing_primes == {q \in prime_factors : PyMod(va - 1, q) # 0}
    IN  [name        |-> "Condicion de divisores primos",
         description |-> "Si q divide a m, entonces q debe dividir a (a-1)",
         satisfied   |-> (failing_primes = {}),
         details     |-> IF failing_primes = {}
                         THEN <<"Todos los factores primos dividen",
                                prime_factors, va - 1>>
                         ELSE <<"Los factores primos no dividen",
                                failing_primes, va - 1>>]

\* Variant: the condition on 4 is always reported satisfied.
validate_four_divisor_condition_Vacuous(va, vm) ==
    [name        |-> "Condicion del 4",
     description |-> "Si 4 divide a m, entonces 4 debe dividir a (a-1)",
     satisfied   |-> TRUE,
     details     |-> <<"4 no divide a m, condicion no aplicable", vm>>]

validate_four_divisor_condition(va, vm) ==
    IF PyMod(vm, 4) # 0
    THEN [name        |-> "Condicion del 4",
          description |-> "Si 4 divide a m, entonces 4 debe dividir a (a-1)",
          satisfied   |-> TRUE,
          details     |-> <<"4 no divide a m, condicion no aplicable", vm>>]
    ELSE [name        |-> "Condicion del 4",
          description |-> "Si 4 divide a m, entonces 4 debe dividir a (a-1)",
          satisfied   |-> (PyMod(va - 1, 4) = 0),
          details     |-> <<"4 divide a m", vm, va - 1,
                            PyMod(va - 1, 4) = 0>>]

validate_all_conditions(va, vb, vm, mixed) ==
    << validate_gcd_condition(vb, vm, mixed),
       validate_prime_divisor_condition(va, vm),
       validate_four_divisor_condition(va, vm) >>

\* The names of the unsatisfied conditions, in order (the list that
\* get_explanation joins with ", ").
RECURSIVE Unsatisfied(_)
Unsatisfied(conditions) ==
    IF conditions = <<>> THEN <<>>
    ELSE IF Head(conditions).satisfied
         THEN Unsatisfied(Tail(conditions))
         ELSE <<Head(conditions).name>> \o Unsatisfied(Tail(conditions))

get_explanation(va, vb, vm, mixed) ==
    LET conditions      == validate_all_conditions(va, vb, vm, mixed)
        satisfied_count == Cardinality({i \in 1..Len(conditions) :
                                            conditions[i].satisfied})
    IN  IF satisfied_count = Len(conditions)
        THEN [maximum_period |-> TRUE,
              text           |-> "Todas las condiciones teoricas se cumplen",
              unsatisfied    |-> <<>>]
        ELSE [maximum_period |-> FALSE,
              text           |-> "Se incumplen las siguientes condiciones",
              unsatisfied    |-> Unsatisfied(conditions)]

\* all(c["satisfied"] for c in conditions)
AllSatisfied(conditions) ==
    \A i \in 1..Len(conditions) : conditions[i].satisfied

----------------------------------------------------------------------------
(* main.py *)

Ok(body) == [status |-> 200, detail |-> "", body |-> body]

Failure(status, detail) == [status |-> status, detail |-> detail, body |-> <<>>]

\* numbers, stats = generator.generate(): unpacking a tuple into two names.
Unpack2(t) ==
    IF Len(t) = 2
    THEN Ok([numbers |-> t[1], statistics |-> t[2]])
    ELSE Failure(500, IF Len(t) > 2
                      THEN "too many values to unpack (expected 2)"
                      ELSE "not enough values to unpack")

\* generate_numbers: the else branch raises HTTPException(400) inside the
\* try, and  except Exception  turns it into a 500.
RejectMethod ==
    /\ pc = "request"
    /\ endpoint = "generate"
    /\ method \notin Congruential \cup {"middle_squares"}
    /\ error' = "HTTPException(400)"
    /\ response' = Failure(500, "Metodo no valido")
    /\ pc' = "responded"
    /\ UNCHANGED <<reqVars, sequence, seen_values, current, iterations,
                   stopped_reason, ret, arVars, testVars, first_result>>

\* generate_numbers after generator.generate() returned or raised.
Respond ==
    /\ pc \in {"returned", "raised"}
    /\ IF pc = "raised"
       THEN /\ response' = Failure(500, error)
            /\ UNCHANGED error
       ELSE /\ response' = Unpack2(ret)
            /\ error' = IF Len(ret) = 2 THEN error ELSE "ValueError"
    /\ pc' = "responded"
    /\ UNCHANGED <<reqVars, sequence, seen_values, current, iterations,
                   stopped_reason, ret, arVars, testVars, first_result>>

\* validate_conditions: the whole handler.
Validate ==
    /\ pc = "request"
    /\ endpoint = "validate"
    /\ IF method \notin Congruential
       THEN /\ error' = "HTTPException(400)"
            /\ response' = Failure(500,
                 "Validacion solo disponible para metodos congruenciales")
       ELSE LET mixed      == (method = "mixed_congruential")
                conditions == validate_all_conditions(a, b, m, mixed)
            IN  /\ response' = Ok([conditions    |-> conditions,
                                   all_satisfied |-> AllSatisfied(conditions),
                                   explanation   |-> get_explanation(a, b, m, mixed)])
                /\ UNCHANGED error
    /\ pc' = "responded"
    /\ UNCHANGED <<reqVars, sequence, seen_values, current, iterations,
                   stopped_reason, ret, arVars, testVars, first_result>>

----------------------------------------------------------------------------
(* Exact rationals <<numerator, denominator>>, denominator > 0 *)

Rat(n) == <<n, 1>>

RatAdd(p, q) == <<p[1] * q[2] + q[1] * p[2], p[2] * q[2]>>

RatSub(p, q) == <<p[1] * q[2] - q[1] * p[2], p[2] * q[2]>>

RatMul(p, q) == <<p[1] * q[1], p[2] * q[2]>>

\* p / q for q # 0.
RatDiv(p, q) ==
    IF q[1] > 0 THEN <<p[1] * q[2], p[2] * q[1]>>
    ELSE <<0 - p[1] * q[2], 0 - p[2] * q[1]>>

RatLeq(p, q) == p[1] * q[2] <= q[1] * p[2]

RatEq(p, q) == p[1] * q[2] = q[1] * p[2]

----------------------------------------------------------------------------
(* The random module: one generator for the whole process *)

Grid == 2 ^ GridBits

\* The hidden state: a lagged recurrence over the next two outputs.
RngStates == (0..(Grid - 1)) \X (0..(Grid - 1))

\* random.random(): the value returned in the state g, in [0, 1).
RandomValue(g) == <<g[1], Grid>>

\* random.random(): the state it leaves behind.
RandomStep(g) == <<g[2], (g[1] + g[2] + 1) % Grid>>

----------------------------------------------------------------------------
(* random_variables/acceptance_rejection.py *)

Invocations == {1, 2}

Densities == {"LinealFunction", "CuadraticFunction", "HyperbolaFunction"}

\* The constructor arguments of the three subclasses: a, b, M, name.
DensityParams(d) ==
    IF d = "LinealFunction"
    THEN [a |-> Rat(0), b |-> Rat(1), M |-> Rat(2), function_name |-> "f(x) = 2x"]
    ELSE IF d = "CuadraticFunction"
    THEN [a |-> Rat(0), b |-> Rat(4), M |-> Rat(4),
          function_name |-> "f(x) = -(x-2)^2 + 4"]
    ELSE [a |-> <<1, 2>>, b |-> Rat(3), M |-> Rat(2), function_name |-> "f(x) = 1/x"]

\* target_density of the three subclasses.
target_density(d, x) ==
    LET p == DensityParams(d)
    IN  IF ~(RatLeq(p.a, x) /\ RatLeq(x, p.b)) THEN Rat(0)
        ELSE IF d = "LinealFunction" THEN RatMul(Rat(2), x)
        ELSE IF d = "CuadraticFunction"
        THEN RatAdd(RatSub(Rat(0), RatMul(RatSub(x, Rat(2)), RatSub(x, Rat(2)))),
                    Rat(4))
        ELSE RatDiv(Rat(1), x)

\* vax = a + (b - a) * r1
Candidate(d, r1) ==
    LET p == DensityParams(d)
    IN  RatAdd(p.a, RatMul(RatSub(p.b, p.a), r1))

\* Variant: the acceptance test is strict.
Accepts_Strict(r2, fvax, M) ==
    ~RatLeq(RatDiv(fvax, M), r2)

\* The acceptance test  r2 <= fvax / self.M.
Accepts(r2, fvax, M) == RatLeq(r2, RatDiv(fvax, M))

\* generate_function_points: 100 points of f over [a, b).
generate_function_points(d) ==
    LET p  == DensityParams(d)
        xs == [i \in 1..100 |->
                  RatAdd(RatMul(<<i - 1, 100>>, RatSub(p.b, p.a)), p.a)]
    IN  <<xs, [i \in 1..100 |-> target_density(d, xs[i])]>>

\* __init__: random.seed() reseeds the process-wide generator from the
\* clock; the instance keeps a, b, M and the name.
Construct(t) ==
    /\ apc[t] = "new"
    /\ rng' \in RngStates
    /\ apc' = [apc EXCEPT ![t] = "constructed"]
    /\ UNCHANGED <<reqVars, genVars, testVars, first_result,
                   density, count, trial, r1_values,
                   r2_values, accepted_values, chart_x, chart_y,
                   chart_accepted, chart_x_d, chart_y_d, accepted_count,
                   result, start_rng>>

\* generate(count) up to the loop: the empty lists and the counter.
BeginGenerate(t) ==
    /\ apc[t] = "constructed"
    /\ r1_values' = [r1_values EXCEPT ![t] = <<>>]
    /\ r2_values' = [r2_values EXCEPT ![t] = <<>>]
    /\ accepted_values' = [accepted_values EXCEPT ![t] = <<>>]
    /\ chart_x' = [chart_x EXCEPT ![t] = <<>>]
    /\ chart_y' = [chart_y EXCEPT ![t] = <<>>]
    /\ chart_accepted' = [chart_accepted EXCEPT ![t] = <<>>]
    /\ chart_x_d' = [chart_x_d EXCEPT ![t] = <<>>]
    /\ chart_y_d' = [chart_y_d EXCEPT ![t] = <<>>]
    /\ accepted_count' = [accepted_count EXCEPT ![t] = 0]
    /\ trial' = [trial EXCEPT ![t] = 0]
    /\ start_rng' = [start_rng EXCEPT ![t] = rng]
    /\ apc' = [apc EXCEPT ![t] = IF 0 < count[t] THEN "draw_r1" ELSE "after_loop"]
    /\ UNCHANGED <<reqVars, genVars, testVars, first_result,
                   rng, density, count, result>>

\* r1 = random.random(); r1_values.append(r1)
DrawR1(t) ==
    /\ apc[t] = "draw_r1"
    /\ r1_values' = [r1_values EXCEPT ![t] = Append(@, RandomValue(rng))]
    /\ rng' = RandomStep(rng)
    /\ apc' = [apc EXCEPT ![t] = "draw_r2"]
    /\ UNCHANGED <<reqVars, genVars, testVars, first_result,
                   density, count, trial, r2_values,
                   accepted_values, chart_x, chart_y, chart_accepted,
                   chart_x_d, chart_y_d, accepted_count, result, start_rng>>

\* r2 = random.random() and the rest of the loop body.
DrawR2(t) ==
    /\ apc[t] = "draw_r2"
    /\ LET p    == DensityParams(density[t])
           r1   == r1_values[t][Len(r1_values[t])]
           r2   == RandomValue(rng)
           vax  == Candidate(density[t], r1)
           fvax == target_density(density[t], vax)
           ok   == Accepts(r2, fvax, p.M)
       IN  /\ r2_values' = [r2_values EXCEPT ![t] = Append(@, r2)]
           /\ chart_x_d' = [chart_x_d EXCEPT ![t] = Append(@, vax)]
           /\ chart_y_d' = [chart_y_d EXCEPT ![t] = Append(@, RatMul(r2, p.M))]
           /\ chart_x' = [chart_x EXCEPT ![t] = Append(@, trial[t] + 1)]
           /\ chart_y' = [chart_y EXCEPT ![t] = Append(@, RatDiv(fvax, p.M))]
           /\ chart_accepted' = [chart_accepted EXCEPT ![t] = Append(@, ok)]
           /\ accepted_values' = [accepted_values EXCEPT ![t] =
                                     IF ok THEN Append(@, vax) ELSE @]
           /\ accepted_count' = [accepted_count EXCEPT ![t] =
                                     IF ok THEN @ + 1 ELSE @]
    /\ rng' = RandomStep(rng)
    /\ trial' = [trial EXCEPT ![t] = @ + 1]
    /\ apc' = [apc EXCEPT ![t] = IF trial[t] + 1 < count[t]
                                 THEN "draw_r1" ELSE "after_loop"]
    /\ UNCHANGED <<reqVars, genVars, testVars, first_result,
                   density, count, r1_values, result,
                   start_rng>>

\* After the loop: the acceptance rate and the returned dictionary.
FinishGenerate(t) ==
    /\ apc[t] = "after_loop"
    /\ LET p      == DensityParams(density[t])
           points == generate_function_points(density[t])
       IN  result' = [result EXCEPT ![t] =
             [r1               |-> r1_values[t],
              r2               |-> r2_values[t],
              generated_values |-> accepted_values[t],
              acceptance_rate  |-> IF count[t] > 0
                                   THEN <<accepted_count[t], count[t]>>
                                   ELSE Rat(0),
              chart_data       |->
                [function_name |-> p.function_name,
                 x             |-> chart_x[t],
                 y             |-> chart_y[t],
                 r2            |-> r2_values[t],
                 accepted      |-> chart_accepted[t],
                 x_d           |-> chart_x_d[t],
                 y_d           |-> chart_y_d[t],
                 points_fx_d   |-> points[2],
                 points_x_d    |-> points[1],
                 a             |-> p.a,
                 b             |-> p.b,
                 M             |-> p.M]]]
    /\ apc' = [apc EXCEPT ![t] = "done"]
    /\ UNCHANGED <<reqVars, genVars, testVars, first_result,
                   rng, density, count, trial, r1_values,
                   r2_values, accepted_values, chart_x, chart_y,
                   chart_accepted, chart_x_d, chart_y_d, accepted_count,
                   start_rng>>

----------------------------------------------------------------------------
(* validators/statistical_tests.py *)
(*                                                                         *)
(* A sample value is a rational; the samples of the model are multiples of *)
(* 1/4, which floats hold exactly.  alpha is counted in hundredths.  The   *)
(* quotients the tests form are kept as exact rationals, except where the  *)
(* rounding of the float decides a result: at a bucket boundary.  The      *)
(* scipy p-value and the formatted strings of the returned dict are left   *)
(* out.                                                                    *)

RatAbs(p) == IF p[1] < 0 THEN <<0 - p[1], p[2]>> ELSE p

\* The same rational in lowest terms.
Reduce(p) ==
    LET g == gcd(RatAbs(p)[1], p[2])
    IN  <<p[1] \div g, p[2] \div g>>

\* The last value of the list, taken for its greatest.
RatMax_LastValue(s) == s[Len(s)]

\* min(numbers), max(numbers)
RatMin(s) == CHOOSE v \in {s[i] : i \in 1..Len(s)} :
                 \A i \in 1..Len(s) : RatLeq(v, s[i])

RatMax(s) == CHOOSE v \in {s[i] : i \in 1..Len(s)} :
                 \A i \in 1..Len(s) : RatLeq(s[i], v)

\* round(x, places) with scale = 10^places, as a count of 1/scale: the
\* nearest one, and the even one when x lies exactly between two.
RoundTo(p, scale) ==
    LET whole == PyFloorDiv(p[1], p[2])
        rest  == (p[1] - whole * p[2]) * scale
        low   == rest \div p[2]
        twice == 2 * (rest - low * p[2])
        base  == whole * scale + low
    IN  IF twice > p[2] \/ (twice = p[2] /\ base % 2 = 1)
        THEN base + 1
        ELSE base

\* The list the name  normalized  is bound to, were it the caller's list.
NewList_SameObject(items) == [same_object |-> TRUE, items |-> items]

\* numbers.copy() and a list comprehension both build a new list object.
NewList(items) == [same_object |-> FALSE, items |-> items]

\* [(x - min_val) / (max_val - min_val) for x in numbers]
Rescale(s, min_val, max_val) ==
    [i \in 1..Len(s) |->
        Reduce(RatDiv(RatSub(s[i], min_val), RatSub(max_val, min_val)))]

\* Normalizar solo si los numeros no estan en el rango [0,1]
normalized_list(s) ==
    LET min_val == RatMin(s)
        max_val == RatMax(s)
    IN  IF min_val[1] < 0 \/ ~RatLeq(max_val, Rat(1))
        THEN NewList(Rescale(s, min_val, max_val))
        ELSE NewList(s)

\* list.sort(): ascending and stable.
RECURSIVE SortAscending(_)
SortAscending(s) ==
    IF Len(s) <= 1 THEN s
    ELSE LET least == CHOOSE i \in 1..Len(s) :
                         /\ \A j \in 1..Len(s) : RatLeq(s[i], s[j])
                         /\ \A j \in 1..(i - 1) : ~RatLeq(s[j], s[i])
             others == [j \in 1..(Len(s) - 1) |->
                           IF j < least THEN s[j] ELSE s[j + 1]]
         IN  <<s[least]>> \o SortAscending(others)

\* The message run_test's  except Exception  puts in its ValueError.
TestError(name, message) == <<"Error en prueba", name, message>>

EmptyMessage == "La lista de numeros no puede estar vacia"

EqualMessage == "Todos los numeros son iguales, no se puede realizar la prueba"

IntervalsMessage == "El numero de intervalos debe ser mayor o igual a 2"

AlphaMessage == "El nivel de significancia debe ser 0.01, 0.05 o 0.10"

\* self.critical_values_table[alpha], in thousandths, by degrees of freedom.
critical_values_table(al) ==
    IF al = 1 THEN
    <<6635, 9210, 11345, 13277, 15086, 16812,
       18475, 20090, 21666, 23209, 24725, 26217,
       27688, 29141, 30578, 32000, 33409, 34805,
       36191, 37566, 38932, 40289, 41638, 42980,
       44314, 45642, 46963, 48278, 49588, 50892>>
    ELSE IF al = 5 THEN
    <<3841, 5991, 7815, 9488, 11070, 12592,
       14067, 15507, 16919, 18307, 19675, 21026,
       22362, 23685, 24996, 26296, 27587, 28869,
       30144, 31410, 32671, 33924, 35172, 36415,
       37652, 38885, 40113, 41337, 42557, 43773>>
    ELSE
    <<2706, 4605, 6251, 7779, 9236, 10645,
       12017, 13362, 14684, 15987, 17275, 18549,
       19812, 21064, 22307, 23542, 24769, 25989,
       27204, 28412, 29615, 30813, 32007, 33196,
       34382, 35563, 36741, 37916, 39087, 40256>>
\* get_critical_value: the tabulated value, or <<>> where the table has
\* none and scipy computes one.
get_critical_value(degrees_of_freedom, al) ==
    IF al \in {1, 5, 10} /\ degrees_of_freedom \in 1..30
    THEN <<critical_values_table(al)[degrees_of_freedom], 1000>>
    ELSE <<>>

\* The rounding error of the float x / y for integers 0 < x < y, as the
\* pair <<c, L>>: fl(x / y) - x / y = (c / y) * 2^(L - 52), where
\* 2^L <= x / y < 2^(L + 1).
DivisionError(x, y) ==
    LET zeros == LeadingZeroBits(x, y)
        rest  == ShiftMod(x, 53 + zeros, y)
    IN  <<IF 2 * rest > y THEN y - rest ELSE 0 - rest, 0 - (zeros + 1)>>

\* int(num / interval_width) for num = fl(p / q), 0 < p < q, and
\* interval_width = fl(1 / k), where p * k / q is an integer j: the float
\* quotient is j(1 + e1)/(1 + e2) rounded to the nearest double, e1 and e2
\* being the relative errors of the two operands.  It is truncated to j
\* unless it rounds below j, which is when (e2 - e1)/(1 + e2) exceeds half
\* the relative spacing of the doubles under j.  Errors and spacing are
\* counted in units of 2^-52.
BoundaryIndex(p, q, k) ==
    LET j       == (p * k) \div q
        e1      == DivisionError(p, q)
        e2      == DivisionError(1, k)
        drift   == RatSub(<<e2[1], 2 ^ (0 - e2[2])>>,
                          <<e1[1], p * 2 ^ (0 - e1[2])>>)
        spacing == IF j = 2 ^ Log2(j) THEN <<1, 4>>
                   ELSE <<2 ^ Log2(j), 2 * j>>
        keeps   == IF RatEq(drift, spacing) THEN e2[1] >= 0
                   ELSE RatLeq(drift, spacing)
    IN  IF keeps THEN j ELSE j - 1

\* num = max(0, min(1, num)); min(int(num / interval_width), intervals - 1)
\* Off a bucket boundary the float quotient truncates as the exact one.
interval_index(num, k) ==
    LET clamped == IF num[1] < 0 THEN Rat(0)
                   ELSE IF RatLeq(num, Rat(1)) THEN Reduce(num) ELSE Rat(1)
        p       == clamped[1]
        q       == clamped[2]
        index   == IF p = 0 \/ p = q \/ (p * k) % q # 0
                   THEN PyFloorDiv(p * k, q)
                   ELSE BoundaryIndex(p, q, k)
    IN  IF index < k - 1 THEN index ELSE k - 1

\* The counting loop; bucket j of the model is observed_frequencies[j - 1].
observed_frequencies(normalized, k) ==
    [j \in 1..k |->
        Cardinality({i \in 1..Len(normalized) :
                        interval_index(normalized[i], k) = j - 1})]

\* chi_square += (observed - expected_frequency) ** 2 / expected_frequency
\* over the first j buckets.
RECURSIVE chi_square(_, _, _)
chi_square(observed, expected_frequency, j) ==
    IF j = 0 THEN Rat(0)
    ELSE LET off == RatSub(Rat(observed[j]), expected_frequency)
         IN  Reduce(RatAdd(chi_square(observed, expected_frequency, j - 1),
                           RatDiv(RatMul(off, off), expected_frequency)))

\* The truth values  chi_square <= critical_value  can take: one where
\* the critical value is tabulated.
PassOutcomes(statistic, critical_value) ==
    IF critical_value = <<>> THEN BOOLEAN
    ELSE {RatLeq(statistic, critical_value)}

\* ChiSquareTest.run_test: the whole call.
ChiSquareRun ==
    /\ tpc = "called"
    /\ test_type = "chi_square"
    /\ LET name == "Chi-cuadrado"
       IN  IF numbers = <<>>
           THEN /\ test_error' = TestError(name, EmptyMessage)
                /\ tpc' = "raised"
                /\ UNCHANGED <<numbers, test_result>>
           ELSE IF intervals < 2
           THEN /\ test_error' = TestError(name, IntervalsMessage)
                /\ tpc' = "raised"
                /\ UNCHANGED <<numbers, test_result>>
           ELSE IF alpha \notin {1, 5, 10}
           THEN /\ test_error' = TestError(name, AlphaMessage)
                /\ tpc' = "raised"
                /\ UNCHANGED <<numbers, test_result>>
           ELSE IF RatEq(RatMin(numbers), RatMax(numbers))
           THEN /\ test_error' = TestError(name, EqualMessage)
                /\ tpc' = "raised"
                /\ UNCHANGED <<numbers, test_result>>
           ELSE LET normalized == normalized_list(numbers)
                    observed   == observed_frequencies(normalized.items,
                                                       intervals)
                    n          == Len(numbers)
                    expected_frequency == Reduce(<<n, intervals>>)
                    statistic  == chi_square(observed, expected_frequency,
                                             intervals)
                    degrees_of_freedom == intervals - 1
                    critical_value ==
                        get_critical_value(degrees_of_freedom, alpha)
                IN  /\ \E passes \in PassOutcomes(statistic, critical_value) :
                          test_result' =
                            [test_name            |-> name,
                             calculated_value     |-> RoundTo(statistic, 1000000),
                             critical_value       |-> critical_value,
                             passes               |-> passes,
                             alpha                |-> alpha,
                             degrees_of_freedom   |-> degrees_of_freedom,
                             sample_size          |-> n,
                             intervals            |-> intervals,
                             observed_frequencies |-> observed,
                             expected_frequency   |->
                                 RoundTo(expected_frequency, 100)]
                    /\ numbers' = numbers
                    /\ tpc' = "returned"
                    /\ UNCHANGED test_error
    /\ UNCHANGED <<reqVars, genVars, arVars, test_type, intervals, alpha,
                   first_result>>

\* self.critical_coefficients.get(significance_level, 1.36), in thousandths.
critical_coefficient(al) ==
    IF al = 1 THEN 1628 ELSE IF al = 10 THEN 1220 ELSE 1360

\* The loop over enumerate(normalized): max of |y_i - (i + 1) / n| over the
\* first j values, starting from 0.
RECURSIVE max_diff(_, _)
max_diff(sorted, j) ==
    IF j = 0 THEN Rat(0)
    ELSE LET before == max_diff(sorted, j - 1)
             diff   == Reduce(RatAbs(RatSub(sorted[j], <<j, Len(sorted)>>)))
         IN  IF RatLeq(diff, before) THEN before ELSE diff

\* deviation <= coefficient / math.sqrt(n): both sides are not negative, so
\* their squares compare alike; the squares are taken over 16 (every
\* coefficient is a multiple of 0.004).
LeqOverSqrt(deviation, coefficient, n) ==
    62500 * n * deviation[1] * deviation[1]
        <= (coefficient \div 4) * (coefficient \div 4)
             * deviation[2] * deviation[2]

\* KolmogorovSmirnovTest.run_test: the whole call.  critical_value is the
\* pair <<coefficient, n>>, for coefficient / sqrt(n).
KolmogorovSmirnovRun ==
    /\ tpc = "called"
    /\ test_type = "kolmogorov_smirnov"
    /\ LET name == "Kolmogorov-Smirnov"
       IN  IF numbers = <<>>
           THEN /\ test_error' = TestError(name, EmptyMessage)
                /\ tpc' = "raised"
                /\ UNCHANGED <<numbers, test_result>>
           ELSE IF RatEq(RatMin(numbers), RatMax(numbers))
           THEN /\ test_error' = TestError(name, EqualMessage)
                /\ tpc' = "raised"
                /\ UNCHANGED <<numbers, test_result>>
           ELSE LET normalized  == normalized_list(numbers)
                    sorted      == SortAscending(normalized.items)
                    n           == Len(sorted)
                    deviation   == max_diff(sorted, n)
                    coefficient == critical_coefficient(alpha)
                IN  /\ numbers' = IF normalized.same_object
                                  THEN sorted
                                  ELSE numbers
                    /\ test_result' =
                         [test_name        |-> name,
                          calculated_value |-> RoundTo(deviation, 1000000),
                          critical_value   |-> <<coefficient, n>>,
                          passes           |-> LeqOverSqrt(deviation,
                                                           coefficient, n),
                          alpha            |-> alpha,
                          sample_size      |-> n]
                    /\ tpc' = "returned"
                    /\ UNCHANGED test_error
    /\ UNCHANGED <<reqVars, genVars, arVars, test_type, intervals, alpha,
                   first_result>>

----------------------------------------------------------------------------
(* The requests the handlers are given *)

Methods == {"mixed_congruential", "multiplicative_congruential",
            "middle_squares", "other"}

Moduli      == (0 - NegSpan)..MaxM
Seeds       == (0 - NegSpan)..MaxM
Multipliers == (0 - NegSpan)..MaxA
Increments  == (0 - NegSpan)..MaxB
MiddleSeeds == (0 - NegSpan)..MaxSeed
DigitCounts == (0 - NegSpan)..MaxDigits

GenerateRequest ==
    /\ endpoint = "generate"
    /\ method \in Methods
    /\ \/ /\ method = "mixed_congruential"
          /\ x0 \in Seeds /\ a \in Multipliers /\ b \in Increments
          /\ m \in Moduli /\ digits = 0
       \/ /\ method = "multiplicative_congruential"
          /\ x0 \in Seeds /\ a \in Multipliers /\ b = 0
          /\ m \in Moduli /\ digits = 0
       \/ /\ method = "middle_squares"
          /\ x0 \in MiddleSeeds /\ digits \in DigitCounts
          /\ a = 0 /\ b = 0 /\ m = 0
       \/ /\ method = "other"
          /\ x0 = 0 /\ a = 0 /\ b = 0 /\ m = 0 /\ digits = 0

ValidateRequest ==
    /\ endpoint = "validate"
    /\ method \in Methods
    /\ x0 = 0 /\ digits = 0
    /\ IF method \in Congruential
       THEN a \in Multipliers /\ b \in Increments /\ m \in Moduli
       ELSE a = 0 /\ b = 0 /\ m = 0

HandlerIdle ==
    /\ sequence = <<>>
    /\ seen_values = {}
    /\ current = 0
    /\ iterations = 0
    /\ stopped_reason = <<>>
    /\ ret = <<>>
    /\ error = ""
    /\ response = <<>>

SamplerIdle ==
    /\ rng = <<0, 0>>
    /\ density = <<>>
    /\ count = <<>>
    /\ apc = <<>>
    /\ trial = <<>>
    /\ r1_values = <<>>
    /\ r2_values = <<>>
    /\ accepted_values = <<>>
    /\ chart_x = <<>>
    /\ chart_y = <<>>
    /\ chart_accepted = <<>>
    /\ chart_x_d = <<>>
    /\ chart_y_d = <<>>
    /\ accepted_count = <<>>
    /\ result = <<>>
    /\ start_rng = <<>>

\* No goodness-of-fit test is being run.
TestIdle ==
    /\ test_type = "none"
    /\ numbers = <<>>
    /\ intervals = 0
    /\ alpha = 0
    /\ tpc = "returned"
    /\ test_result = <<>>
    /\ test_error = <<>>

Init ==
    /\ (GenerateRequest \/ ValidateRequest)
    /\ pc = "request"
    /\ HandlerIdle
    /\ SamplerIdle
    /\ TestIdle
    /\ first_result = NoResult

Next ==
    \/ StartCongruential
    \/ CongruentialIterate
    \/ CongruentialFinish
    \/ StartMiddleSquares
    \/ MiddleSquaresIterate
    \/ MiddleSquaresExit
    \/ MiddleSquaresFinish
    \/ RejectMethod
    \/ Respond
    \/ Validate

Spec == Init /\ [][Next]_vars

\* No request is being handled.
RequestIdle ==
    /\ endpoint = "none" /\ method = "other"
    /\ x0 = 0 /\ a = 0 /\ b = 0 /\ m = 0 /\ digits = 0
    /\ pc = "responded"

SamplerFresh ==
    /\ trial = [t \in Invocations |-> 0]
    /\ r1_values = [t \in Invocations |-> <<>>]
    /\ r2_values = [t \in Invocations |-> <<>>]
    /\ accepted_values = [t \in Invocations |-> <<>>]
    /\ chart_x = [t \in Invocations |-> <<>>]
    /\ chart_y = [t \in Invocations |-> <<>>]
    /\ chart_accepted = [t \in Invocations |-> <<>>]
    /\ chart_x_d = [t \in Invocations |-> <<>>]
    /\ chart_y_d = [t \in Invocations |-> <<>>]
    /\ accepted_count = [t \in Invocations |-> 0]
    /\ result = [t \in Invocations |-> <<>>]
    /\ start_rng = [t \in Invocations |-> <<>>]

\* One sampler of any registered density is about to be constructed and
\* run for any count; the generator of the random module was seeded at
\* import.
InitSampler ==
    /\ RequestIdle
    /\ HandlerIdle
    /\ rng \in RngStates
    /\ density \in {f \in [Invocations -> Densities] : f[2] = "LinealFunction"}
    /\ count \in {f \in [Invocations -> 0..MaxCount] : f[2] = 0}
    /\ apc = [t \in Invocations |-> IF t = 1 THEN "new" ELSE "absent"]
    /\ SamplerFresh
    /\ TestIdle
    /\ first_result = NoResult

\* Two threads are each about to construct a LinealFunction sampler and
\* run it for one trial.
InitInterleaved ==
    /\ RequestIdle
    /\ HandlerIdle
    /\ rng = <<0, 0>>
    /\ density = [t \in Invocations |-> "LinealFunction"]
    /\ count = [t \in Invocations |-> 1]
    /\ apc = [t \in Invocations |-> "new"]
    /\ SamplerFresh
    /\ TestIdle
    /\ first_result = NoResult

NextSampler ==
    \E t \in Invocations :
        \/ Construct(t)
        \/ BeginGenerate(t)
        \/ DrawR1(t)
        \/ DrawR2(t)
        \/ FinishGenerate(t)

SpecSampler == InitSampler /\ [][NextSampler]_vars

SpecInterleaved == InitInterleaved /\ [][NextSampler]_vars

\* generate() has returned; its caller keeps the tuple and calls generate()
\* again on the same generator object.
CallAgain ==
    /\ pc = "returned"
    /\ first_result.returned = <<>>
    /\ first_result' = [returned |-> ret, held |-> ret, shares |-> TRUE]
    /\ pc' = "request"
    /\ UNCHANGED <<reqVars, sequence, seen_values, current, iterations,
                   stopped_reason, ret, error, response, arVars, testVars>>

\* generate() has returned; its caller keeps the tuple, constructs a second
\* generator with the same arguments (__init__: empty list and set) and
\* calls generate() on that one.
CallFresh ==
    /\ pc = "returned"
    /\ first_result.returned = <<>>
    /\ first_result' = [returned |-> ret, held |-> ret, shares |-> FALSE]
    /\ sequence' = <<>>
    /\ seen_values' = {}
    /\ pc' = "request"
    /\ UNCHANGED <<reqVars, current, iterations, stopped_reason, ret, error,
                   response, arVars, testVars>>

\* A generator of one of the three methods is about to run, and its caller
\* will run it a second time.
InitRepeat ==
    /\ GenerateRequest
    /\ method # "other"
    /\ pc = "request"
    /\ HandlerIdle
    /\ SamplerIdle
    /\ TestIdle
    /\ first_result = NoResult

NextRepeat ==
    \/ StartCongruential
    \/ CongruentialIterate
    \/ CongruentialFinish
    \/ StartMiddleSquares
    \/ MiddleSquaresIterate
    \/ MiddleSquaresExit
    \/ MiddleSquaresFinish
    \/ CallAgain
    \/ CallFresh

SpecRepeat == InitRepeat /\ [][NextRepeat]_vars

\* The samples, interval counts and significance levels run_test is given.
SampleValues == {<<v, 4>> : v \in (0 - NegSpan)..MaxSampleValue}

Samples == UNION {[1..n -> SampleValues] : n \in 0..MaxSampleSize}

Alphas == {1, 2, 5, 10}

TestRequest ==
    /\ test_type \in {"chi_square", "kolmogorov_smirnov"}
    /\ numbers \in Samples
    /\ alpha \in Alphas
    /\ IF test_type = "chi_square"
       THEN intervals \in 0..MaxIntervals
       ELSE intervals = 0

\* One of the two tests is about to be run on any sample.
InitTests ==
    /\ RequestIdle
    /\ HandlerIdle
    /\ SamplerIdle
    /\ TestRequest
    /\ tpc = "called"
    /\ test_result = <<>>
    /\ test_error = <<>>
    /\ first_result = NoResult

NextTests ==
    \/ ChiSquareRun
    \/ KolmogorovSmirnovRun

SpecTests == InitTests /\ [][NextTests]_vars

----------------------------------------------------------------------------
(* Properties of the congruential generators *)

Elements(s) == {s[i] : i \in 1..Len(s)}

NoDuplicates(s) == \A i, j \in 1..Len(s) : i # j => s[i] # s[j]

\* The recurrence as the specification writes it, on 0..m-1 for m > 1.
Recurrence(x) ==
    IF method = "mixed_congruential" THEN (a * x + b) % m ELSE (a * x) % m

CongruentialInDomain ==
    /\ endpoint = "generate"
    /\ method \in Congruential
    /\ m > 1
    /\ 0 <= x0 /\ x0 < m

CongruentialReturned == CongruentialInDomain /\ pc \in {"returned", "responded"}

\* C1: for a congruential generator with m > 1 and 0 <= x0 < m, the emitted
\* sequence starts at x0, each later element is the recurrence applied to
\* its predecessor, no value is emitted twice, the run stops at the first
\* value already emitted (which is not appended), and stats.count and
\* stats.period equal the number of distinct values emitted.
C1_CycleDetection ==
    (CongruentialInDomain /\ pc \in {"cong_loop", "returned", "responded"}) =>
        /\ NoDuplicates(sequence)
        /\ seen_values = Elements(sequence)
        /\ sequence # <<>> => sequence[1] = x0
        /\ \A i \in 2..Len(sequence) : sequence[i] = Recurrence(sequence[i - 1])
        /\ sequence # <<>> => current = Recurrence(sequence[Len(sequence)])
        /\ pc # "cong_loop" =>
              /\ sequence # <<>>
              /\ current \in Elements(sequence)
              /\ ret[1] = sequence
              /\ ret[3].count = Cardinality(Elements(sequence))
              /\ ret[3].period = Cardinality(Elements(sequence))
              /\ ret[3].count = Len(sequence)

\* A run that ended on a repeated value other than the seed (a tail before
\* the cycle), after at least three values.
C1_Witness ==
    /\ CongruentialReturned
    /\ Len(sequence) >= 3
    /\ current # x0
    /\ method = "mixed_congruential" /\ b # 0

C2Parameters ==
    /\ endpoint = "generate"
    /\ method = "mixed_congruential"
    /\ x0 = 1 /\ a = 5 /\ b = 3 /\ m = 16

\* C2 as stated: with (x0=1, a=5, b=3, m=16) the values are 1, 8, 11, 10, 5,
\* 12, 15, 6 and then 1 again, the emitted sequence has length 8 and the
\* stop reason is exactly "repeated value".
C2_AsStated ==
    (C2Parameters /\ pc = "returned") =>
        /\ sequence = <<1, 8, 11, 10, 5, 12, 15, 6>>
        /\ current = 1
        /\ Len(sequence) = 8
        /\ ret[3].stopped_reason = <<"repeated value">>

\* C2 amended: with (x0=1, a=5, b=3, m=16) the values are 1, 8, 11, 10, 5,
\* 12, 15, 14, 9, 0, 3, 2, 13, 4, 7, 6 and then 1 again: the cycle is
\* detected at the 17th draw, the emitted sequence has length 16, and the
\* stop reason is "Se repitio el valor 1 (inicio de ciclo)".
C2_FullCycle ==
    (C2Parameters /\ pc = "returned") =>
        /\ sequence = <<1, 8, 11, 10, 5, 12, 15, 14, 9, 0, 3, 2, 13, 4, 7, 6>>
        /\ current = 1
        /\ ret[3].count = 16
        /\ ret[3].stopped_reason = <<"Se repitio el valor", 1, "(inicio de ciclo)">>

C2_Witness == C2Parameters /\ pc = "returned"

----------------------------------------------------------------------------
(* Properties of the middle-square generator *)

MiddleSquaresRun == endpoint = "generate" /\ method = "middle_squares"

MiddleSquaresInDomain ==
    /\ MiddleSquaresRun
    /\ digits >= 1
    /\ 0 <= x0 /\ x0 < Pow10(digits)

\* The middle d digits of x squared, written with leading zeros on 2d
\* digits, for even d: floor(x^2 / 10^(d/2)) mod 10^d.
LeftPaddedMiddle(x, d) == ((x * x) \div Pow10(d \div 2)) % Pow10(d)

\* C3: for 0 <= x < 10^d the middle-square step returns the middle d digits
\* of x squared left-padded with zeros to 2d digits (for even d,
\* floor(x^2 / 10^(d/2)) mod 10^d); x = 1234, d = 4 gives 5227.
C3_LeftPaddedStep ==
    (/\ MiddleSquaresInDomain
     /\ pc \in {"ms_loop", "ms_after"}
     /\ sequence # <<>>
     /\ digits % 2 = 0) =>
        current = LeftPaddedMiddle(sequence[Len(sequence)], digits)

----------------------------------------------------------------------------
(* Properties of the /generate handler *)

GenerateInDomain ==
    /\ endpoint = "generate"
    /\ \/ CongruentialInDomain
       \/ MiddleSquaresInDomain

\* C4: generate(method, params) with a supported method and in-domain
\* parameters answers with a complete result (sequence, normalized values,
\* stats), not with a failure.
C4_ReturnsResult ==
    (GenerateInDomain /\ pc = "responded") =>
        /\ response.status = 200
        /\ response.body # <<>>

\* C8: generation with m <= 1, x0 outside [0, m) or digits <= 0 fails
\* before any value is generated: nothing is appended to the sequence and
\* no result is returned.
C8_FailsFast ==
    (/\ endpoint = "generate"
     /\ \/ method \in Congruential /\ (m <= 1 \/ x0 < 0 \/ x0 >= m)
        \/ method = "middle_squares" /\ digits <= 0) =>
        /\ sequence = <<>>
        /\ ret = <<>>
        /\ pc = "responded" => response.status # 200

----------------------------------------------------------------------------
(* Properties of the validator *)

Divides(q, n) == n % q = 0

IsPrime(q) == q > 1 /\ \A k \in 2..(q - 1) : ~Divides(k, q)

\* u and v > 1 have no common divisor above 1.
Coprime(u, v) == \A k \in 2..v : ~(Divides(k, u) /\ Divides(k, v))

PrimeDivisorsDivide(va, vm) ==
    \A q \in 2..vm : (IsPrime(q) /\ Divides(q, vm)) => Divides(q, va - 1)

FourRule(va, vm) == Divides(4, vm) => Divides(4, va - 1)

ValidatorSatisfied ==
    AllSatisfied(validate_all_conditions(a, b, m, method = "mixed_congruential"))

\* m = 2 with an even multiplier and a seed of the other parity than the
\* increment: the seed and then b mod 2 are emitted, and the run stops on
\* the fixed point b mod 2.
TwoStepTail == m = 2 /\ a % 2 = 0 /\ x0 # b % 2

MixedReturned ==
    /\ CongruentialInDomain
    /\ method = "mixed_congruential"
    /\ pc = "returned"

\* C5 as stated: when the validator reports the three conditions satisfied
\* for mixed (a, b, m), the run from any seed emits exactly m values; when
\* it reports some condition unsatisfied, the run emits fewer than m.
C5_AsStated ==
    MixedReturned =>
        /\ ValidatorSatisfied => ret[3].period = m
        /\ ~ValidatorSatisfied => ret[3].period < m

\* C5 amended: when the validator reports the three conditions satisfied,
\* the run from any seed emits exactly m values; when it reports some
\* condition unsatisfied, the run emits fewer than m values, except for
\* m = 2 with a even and x0 of the other parity than b, where it emits the
\* two values x0, b mod 2 and stops on the repeated b mod 2.
C5_PeriodMatchesValidator ==
    MixedReturned =>
        /\ ValidatorSatisfied => ret[3].period = m
        /\ ~ValidatorSatisfied =>
              IF TwoStepTail
              THEN sequence = <<x0, b % 2>> /\ current = b % 2
              ELSE ret[3].period < m

\* A full period found for a multiplier other than 1 and a modulus that 4
\* divides.
C5_Witness ==
    /\ MixedReturned
    /\ ValidatorSatisfied
    /\ m = 16 /\ a = 5
    /\ ret[3].period = 16

ValidateAnswered ==
    /\ endpoint = "validate"
    /\ method \in Congruential
    /\ m > 1
    /\ pc = "responded"

\* C6: for integers a, b and m > 1, validate reports exactly three
\* conditions whose satisfied flags are, in order, (is_mixed => gcd(b, m) =
\* 1), (every prime divisor of m divides a - 1) and (4 | m => 4 | a - 1);
\* all_satisfied is their conjunction; the explanation announces maximum
\* period exactly when all three hold and otherwise names exactly the
\* unsatisfied conditions; for is_mixed false the first is satisfied
\* whatever b is.
C6_ConditionsAreExact ==
    ValidateAnswered =>
        LET report == response.body
            conds  == report.conditions
            mixed  == (method = "mixed_congruential")
            failed == {i \in 1..3 : ~conds[i].satisfied}
            named  == report.explanation.unsatisfied
        IN  /\ response.status = 200
            /\ Len(conds) = 3
            /\ conds[1].satisfied = (mixed => Coprime(b, m))
            /\ conds[2].satisfied = PrimeDivisorsDivide(a, m)
            /\ conds[3].satisfied = FourRule(a, m)
            /\ report.all_satisfied =
                 ((mixed => Coprime(b, m)) /\ PrimeDivisorsDivide(a, m)
                    /\ FourRule(a, m))
            /\ report.explanation.maximum_period = report.all_satisfied
            /\ Len(named) = Cardinality(failed)
            /\ Elements(named) = {conds[i].name : i \in failed}
            /\ ~mixed => conds[1].satisfied

\* A mixed request whose modulus has two prime divisors, where the first
\* condition holds and the other two fail.
C6_Witness ==
    /\ ValidateAnswered
    /\ method = "mixed_congruential"
    /\ m = 12 /\ a = 3 /\ b = 1
    /\ response.body.explanation.unsatisfied =
          <<"Condicion de divisores primos", "Condicion del 4">>

----------------------------------------------------------------------------
(* Properties of the middle-square stop reasons *)

MiddleSquaresReturned ==
    /\ MiddleSquaresRun
    /\ digits >= 1
    /\ pc \in {"returned", "responded"}

\* The values the step produced so far: every element after the seed, and
\* the value the loop holds.
Outputs == Tail(sequence) \o <<current>>

EndsWithZeros(s, n) ==
    /\ Len(s) >= n
    /\ \A i \in (Len(s) - n + 1)..Len(s) : s[i] = 0

ReasonKinds(reason) ==
    {k \in {"zero", "repeated", "limit"} :
        \/ k = "zero" /\ reason = ZeroReason
        \/ k = "repeated" /\ reason = RepeatReason(current)
        \/ k = "limit" /\ reason = LimitReason}

\* C7 as stated: the driver does not halt on a zero output before 3
\* consecutive zero outputs; a run halted by zeros reports the zero reason
\* and not the repeated-value or iteration-limit reason; every run reports
\* exactly one of the three reasons.
C7_AsStated ==
    MiddleSquaresReturned =>
        /\ current = 0 =>
              /\ EndsWithZeros(Outputs, 3)
              /\ ReasonKinds(ret[3].stopped_reason) = {"zero"}
        /\ Cardinality(ReasonKinds(ret[3].stopped_reason)) = 1

\* C7 amended: the driver halts on the first zero output (no zero output
\* is ever appended or squared again); a run halted by a zero reports the
\* zero reason when the seed is not 0 and the repeated-value reason when
\* the seed is 0, and never the iteration-limit reason; every run with
\* digits >= 1 reports exactly one of the three reasons.
C7_HaltsOnFirstZero ==
    /\ (MiddleSquaresRun /\ digits >= 1) =>
          /\ \A i \in 2..Len(sequence) : sequence[i] # 0
          /\ (pc = "ms_loop" /\ sequence # <<>>) => current # 0
    /\ MiddleSquaresReturned =>
          /\ (current = 0 /\ x0 # 0) =>
                ReasonKinds(ret[3].stopped_reason) = {"zero"}
          /\ (current = 0 /\ x0 = 0) =>
                ReasonKinds(ret[3].stopped_reason) = {"repeated"}
          /\ current # 0 =>
                ReasonKinds(ret[3].stopped_reason) \in {{"repeated"}, {"limit"}}
          /\ Cardinality(ReasonKinds(ret[3].stopped_reason)) = 1
          /\ ret[3].stopped_reason = stopped_reason

\* A run of several values that a single zero output halted.
C7_Witness ==
    /\ MiddleSquaresReturned
    /\ x0 # 0
    /\ current = 0
    /\ Len(sequence) >= 3
    /\ ret[3].stopped_reason = ZeroReason

----------------------------------------------------------------------------
(* Properties of the acceptance-rejection sampler *)

RatSquare(p) == RatMul(p, p)

\* f(a + (b - a) u) / M for the three registered densities, worked out by
\* hand: u for 2x on [0, 1] with M = 2; 1 - (2u - 1)^2 for -(x-2)^2 + 4 on
\* [0, 4] with M = 4; 1 / (1 + 5u) for 1/x on [1/2, 3] with M = 2.
ScaledDensity(d, u) ==
    IF d = "LinealFunction" THEN u
    ELSE IF d = "CuadraticFunction"
    THEN RatSub(Rat(1), RatSquare(RatSub(RatMul(Rat(2), u), Rat(1))))
    ELSE RatDiv(Rat(1), RatAdd(Rat(1), RatMul(Rat(5), u)))

\* a + (b - a) u for the three registered densities.
DomainPoint(d, u) ==
    IF d = "LinealFunction" THEN u
    ELSE IF d = "CuadraticFunction" THEN RatMul(Rat(4), u)
    ELSE RatAdd(<<1, 2>>, RatMul(<<5, 2>>, u))

\* The elements of xs whose flag is TRUE, in order.
RECURSIVE SelectAccepted(_, _)
SelectAccepted(xs, flags) ==
    IF xs = <<>> THEN <<>>
    ELSE IF Head(flags)
         THEN <<Head(xs)>> \o SelectAccepted(Tail(xs), Tail(flags))
         ELSE SelectAccepted(Tail(xs), Tail(flags))

RECURSIVE StreamState(_, _)
StreamState(g, k) == IF k = 0 THEN g ELSE StreamState(RandomStep(g), k - 1)

\* C10: the uniform source is a per-call value and not shared state: two
\* invocations given the same draws take the same accept/reject decisions,
\* and an interleaved invocation, or a sampler constructed between draws,
\* cannot change the draws an invocation observes, which are those of the
\* source it started with.
C10_SourceNotShared ==
    /\ \A t, u \in Invocations :
          (/\ density[t] = density[u]
           /\ r1_values[t] = r1_values[u]
           /\ r2_values[t] = r2_values[u]) =>
              chart_accepted[t] = chart_accepted[u]
    /\ \A t \in Invocations :
          /\ \A i \in 1..Len(r1_values[t]) :
                r1_values[t][i] =
                    RandomValue(StreamState(start_rng[t], 2 * i - 2))
          /\ \A i \in 1..Len(r2_values[t]) :
                r2_values[t][i] =
                    RandomValue(StreamState(start_rng[t], 2 * i - 1))

----------------------------------------------------------------------------
(* Properties of the goodness-of-fit tests *)

\* Empty or constant: no two values of the sample differ.
Degenerate(s) == \A i, j \in 1..Len(s) : RatEq(s[i], s[j])

TestEnded == test_type # "none" /\ tpc \in {"returned", "raised"}

DegenerateMessages == {EmptyMessage, EqualMessage}

\* C11: both run_test methods raise, and return nothing, whenever the
\* sample is empty or constant, whatever intervals and alpha are; and on a
\* sample with two distinct values neither raises the empty-sample or the
\* equal-values error.
C11_DegenerateSamplesFail ==
    TestEnded =>
        IF Degenerate(numbers)
        THEN tpc = "raised" /\ test_result = <<>> /\ test_error # <<>>
        ELSE tpc = "raised" => test_error[3] \notin DegenerateMessages

\* C11 witness: the Chi-square test was given the constant sample 0.5, 0.5
\* with valid intervals and alpha, and raised the equal-values error.
C11_Witness ==
    /\ test_type = "chi_square"
    /\ tpc = "raised"
    /\ numbers = <<<<2, 4>>, <<2, 4>>>>
    /\ intervals = 2
    /\ alpha = 5
    /\ test_error = TestError("Chi-cuadrado", EqualMessage)
    /\ test_result = <<>>

\* The sample as the tests read it: scaled to [0, 1] by its extremes when
\* some value lies outside [0, 1], as given otherwise.
UnitSample(s) ==
    LET low  == CHOOSE v \in Elements(s) : \A w \in Elements(s) : RatLeq(v, w)
        high == CHOOSE v \in Elements(s) : \A w \in Elements(s) : RatLeq(w, v)
    IN  IF \E i \in 1..Len(s) : s[i][1] < 0 \/ s[i][1] > s[i][2]
        THEN [i \in 1..Len(s) |->
                 <<(s[i][1] * low[2] - low[1] * s[i][2]) * high[2],
                   (high[1] * low[2] - low[1] * high[2]) * s[i][2]>>]
        ELSE s

\* y in [0, 1] lies in bucket j of k: [(j-1)/k, j/k), the last one closed.
InBucket(y, j, k) ==
    /\ (j - 1) * y[2] <= k * y[1]
    /\ k * y[1] < j * y[2] \/ (j = k /\ y[1] = y[2])

\* sum over the buckets of (observed - n/k)^2 / (n/k)
ChiStatistic(observed, n, k) ==
    <<SeqSum([j \in 1..k |-> (k * observed[j] - n) * (k * observed[j] - n)]),
      k * n>>

\* Upper critical values of the chi-square distribution, in thousandths,
\* for 1 to 4 degrees of freedom as statistical tables print them.
TabulatedCritical(al, df) ==
    IF df > 4 THEN critical_values_table(al)[df]
    ELSE IF al = 1 THEN <<6635, 9210, 11345, 13277>>[df]
    ELSE IF al = 5 THEN <<3841, 5991, 7815, 9488>>[df]
    ELSE <<2706, 4605, 6251, 7779>>[df]

ChiSquareInDomain ==
    /\ test_type = "chi_square"
    /\ tpc \in {"returned", "raised"}
    /\ ~Degenerate(numbers)
    /\ intervals >= 2
    /\ alpha \in {1, 5, 10}

\* C12: on a non-degenerate sample of n values with k >= 2 intervals the
\* Chi-square test puts every value in exactly one of the k equal buckets
\* of [0, 1] (scaling only a sample that leaves [0, 1]), so the observed
\* frequencies sum to n; its statistic is the sum of (observed - n/k)^2 /
\* (n/k), with k - 1 degrees of freedom; passes is true exactly when the
\* statistic is at most the tabulated critical value; n/k values in every
\* bucket give statistic 0 and pass.
C12_ChiSquareStatistic ==
    ChiSquareInDomain =>
        /\ tpc = "returned"
        /\ LET n         == Len(numbers)
               k         == intervals
               y         == UnitSample(numbers)
               observed  == test_result.observed_frequencies
               statistic == ChiStatistic(observed, n, k)
               critical  == TabulatedCritical(alpha, k - 1)
           IN  /\ \A i \in 1..n :
                     Cardinality({j \in 1..k : InBucket(y[i], j, k)}) = 1
               /\ Len(observed) = k
               /\ \A j \in 1..k :
                     observed[j] =
                         Cardinality({i \in 1..n : InBucket(y[i], j, k)})
               /\ SeqSum(observed) = n
               /\ test_result.sample_size = n
               /\ test_result.calculated_value = RoundTo(statistic, 1000000)
               /\ test_result.degrees_of_freedom = k - 1
               /\ test_result.critical_value = <<critical, 1000>>
               /\ test_result.passes
                     = (1000 * statistic[1] <= critical * statistic[2])
               /\ (\A j \in 1..k :
                      k * Cardinality({i \in 1..n : InBucket(y[i], j, k)}) = n)
                     => test_result.calculated_value = 0 /\ test_result.passes

\* The i-th smallest value of s.
OrderStatistic(s, i) ==
    CHOOSE v \in Elements(s) :
        /\ Cardinality({j \in 1..Len(s) : ~RatLeq(v, s[j])}) < i
        /\ i <= Cardinality({j \in 1..Len(s) : RatLeq(s[j], v)})

\* |i/n - y_(i)|
Deviation(s, i) == RatAbs(RatSub(<<i, Len(s)>>, OrderStatistic(s, i)))

\* The greatest of the deviations, in lowest terms.
MaxDeviation(s) ==
    LET all == {Reduce(Deviation(s, i)) : i \in 1..Len(s)}
    IN  CHOOSE d \in all : \A e \in all : RatLeq(e, d)

\* The critical coefficients 1.628, 1.36 and 1.22 as fractions.
Coefficient(al) ==
    IF al = 1 THEN <<407, 250>> ELSE IF al = 5 THEN <<34, 25>> ELSE <<61, 50>>

\* d <= c / sqrt(n) for d, c >= 0
WithinCritical(d, c, n) ==
    n * d[1] * d[1] * c[2] * c[2] <= c[1] * c[1] * d[2] * d[2]

\* C13: on a non-degenerate sample of n values the Kolmogorov-Smirnov test
\* reports the maximum over i = 1..n of |i/n - y_(i)| of the normalized
\* sample in ascending order, passes exactly when that is at most
\* coefficient / sqrt(n) with coefficient 1.628, 1.36, 1.22 for alpha 0.01,
\* 0.05, 0.10, and leaves the caller's list in its original order.
C13_KolmogorovSmirnovStatistic ==
    [][(/\ test_type = "kolmogorov_smirnov"
        /\ tpc = "called"
        /\ ~Degenerate(numbers)
        /\ alpha \in {1, 5, 10})
       => LET n         == Len(numbers)
              statistic == MaxDeviation(UnitSample(numbers))
          IN  /\ tpc' = "returned"
              /\ numbers' = numbers
              /\ test_result'.sample_size = n
              /\ test_result'.calculated_value = RoundTo(statistic, 1000000)
              /\ test_result'.passes
                    = WithinCritical(statistic, Coefficient(alpha), n)]_vars

\* C13 witness: the unsorted sample 0.25, 0, 0 at alpha 0.10 has maximum
\* deviation |3/3 - 0.25| = 0.75, above 1.22 / sqrt(3), fails the test and
\* is still in the order given.
C13_Witness ==
    /\ test_type = "kolmogorov_smirnov"
    /\ tpc = "returned"
    /\ numbers = <<<<1, 4>>, <<0, 4>>, <<0, 4>>>>
    /\ alpha = 10
    /\ test_result.calculated_value = 750000
    /\ ~test_result.passes

----------------------------------------------------------------------------
(* Properties of the normalized values *)

\* C14: every element of the normalized list generate returns, for a
\* congruential generator with 0 <= x0 < m or a middle-square generator
\* with 0 <= x0 < 10^d, lies in [0, 1): rounding to three decimals never
\* yields 1.  (Normalized values are counted in thousandths.)
C14_NormalizedBelowOne ==
    (GenerateInDomain /\ pc \in {"returned", "responded"}) =>
        \A i \in 1..Len(ret[2]) : 0 <= ret[2][i] /\ ret[2][i] < 1000

----------------------------------------------------------------------------
(* Properties of repeated generation *)

\* C15: a second generate() with the same parameters, on the same generator
\* or on a new one, returns the same sequence, normalized list and stats as
\* the first, and leaves the tuple the first call returned as it was.
C15_Repeatable ==
    first_result.returned # <<>> =>
        /\ first_result.held = first_result.returned
        /\ pc # "raised"
        /\ pc = "returned" => ret = first_result.returned

\* C15 witness: a middle-square generator returned a second time, with a
\* sequence of at least three values equal to the first one.
C15_Witness ==
    /\ method = "middle_squares"
    /\ pc = "returned"
    /\ first_result.returned # <<>>
    /\ Len(ret[1]) >= 3
    /\ ret = first_result.returned
    /\ first_result.held = ret

----------------------------------------------------------------------------
(* Properties of termination *)

StopReasons ==
    {ZeroReason[1], LimitReason[1], RepeatReason(0)[1]}

\* The bounds of a run, at every point of it.
BoundedRun ==
    /\ CongruentialInDomain =>
          /\ Len(sequence) <= m
          /\ (method = "multiplicative_congruential" /\ a = m) =>
                Len(sequence) <= 2
    /\ (MiddleSquaresRun /\ digits >= 1) =>
          /\ Len(sequence) <= max_iterations
          /\ pc # "raised"
          /\ pc \in {"returned", "responded"} =>
                /\ Len(ret[1]) <= max_iterations
                /\ ret[3].stopped_reason # <<>>
                /\ ret[3].stopped_reason[1] \in StopReasons

\* The runs the bounds are claimed for.
BoundedDomain == CongruentialInDomain \/ (MiddleSquaresRun /\ digits >= 1)

\* An upper bound on the steps a run still has to take.
Remaining ==
    LET cap == IF method \in Congruential THEN m ELSE max_iterations
    IN  CASE pc = "request" -> cap + 4
          [] pc \in {"cong_loop", "ms_loop"} -> cap - Len(sequence) + 3
          [] pc = "ms_after" -> 2
          [] pc \in {"returned", "raised"} -> 1
          [] OTHER -> 0

\* The run has a step to take: an action of the generator is enabled (for
\* the loop body of the middle-square driver, its condition holds and the
\* middle digits exist).
CanStep ==
    \/ ENABLED StartCongruential
    \/ ENABLED CongruentialIterate
    \/ ENABLED CongruentialFinish
    \/ ENABLED StartMiddleSquares
    \/ /\ pc = "ms_loop"
       /\ current \notin seen_values
       /\ iterations < max_iterations
       /\ MiddleSlice(current, digits) # <<>>
    \/ ENABLED MiddleSquaresExit
    \/ ENABLED MiddleSquaresFinish

====
